---- MODULE Spec2Model ----
(***************************************************************************)
(* Model of assignment.py: the SQLite schema initialiser, the CSV loader   *)
(* and the four report queries, run in sequence by the __main__ block.     *)
(*                                                                         *)
(* Text fields that the program converts (Rating, Rating Count, Rank,      *)
(* Season, Episode) are sequences of characters, so that int(), float(),   *)
(* str.isdigit() and str.replace() are computed character by character.    *)
(* Code, Title and id_code are copied verbatim by the program and are      *)
(* plain strings.  A nullable SQL value is a set: {} is NULL, {v} is v.    *)
(* A REAL is an exact decimal [m, f] standing for m / 10^f.                *)
(* Every CSV row has a value for every column of its header (the csv       *)
(* module's None for a short row is outside the modelled inputs), and      *)
(* integers stay far below 2^63 (a larger int makes sqlite3 raise          *)
(* OverflowError at the insert).                                           *)
(***************************************************************************)
EXTENDS Integers, Sequences, FiniteSets, TLC

VARIABLES
    disk,         \* teleparty.db as committed: what any new connection sees
    work,         \* the database as seen by ingest_data's connection (uncommitted rows included)
    pc,           \* position of the __main__ block
    exc,          \* the exception raised in this run, "none" if none
    done,         \* the phases this run has completed, in order
    showFile,     \* all-series-ep-average.csv as read by this run
    episodeFile,  \* all-episode-ratings.csv as read by this run
    found,        \* what create_database_and_tables found on disk, until the next step runs
    out           \* what run_reports printed in this run

vars == <<disk, work, pc, exc, done, showFile, episodeFile, found, out>>

\* ------------------------------------------------------------------ bounds
MaxShowRows == 2
MaxEpisodeRows == 2

\* ------------------------------------------------------------- characters
DecimalDigits == {"0", "1", "2", "3", "4", "5", "6", "7", "8", "9"}

\* "sup2" is U+00B2 SUPERSCRIPT TWO: str.isdigit() is True for it, int() rejects it.
DigitVal(c) ==
    CASE c = "0" -> 0 [] c = "1" -> 1 [] c = "2" -> 2 [] c = "3" -> 3 [] c = "4" -> 4
      [] c = "5" -> 5 [] c = "6" -> 6 [] c = "7" -> 7 [] c = "8" -> 8 [] c = "9" -> 9

\* str.isdigit(): non-empty and every character has the Unicode property
\* Numeric_Type=Digit or Decimal.
str_isdigit(s) ==
    /\ Len(s) > 0
    /\ \A i \in 1..Len(s) : s[i] \in DecimalDigits \cup {"sup2"}

\* str.replace(',', '')
RECURSIVE str_replace_comma(_)
str_replace_comma(s) ==
    IF s = <<>> THEN <<>>
    ELSE IF Head(s) = "," THEN str_replace_comma(Tail(s))
         ELSE <<Head(s)>> \o str_replace_comma(Tail(s))

RECURSIVE DigitsValue(_)
DigitsValue(s) ==
    IF s = <<>> THEN 0
    ELSE 10 * DigitsValue(SubSeq(s, 1, Len(s) - 1)) + DigitVal(s[Len(s)])

AllDecimal(s) == \A i \in 1..Len(s) : s[i] \in DecimalDigits

\* int(s): [ok, v]; not ok stands for ValueError.
int(s) ==
    IF Len(s) > 0 /\ AllDecimal(s)
    THEN [ok |-> TRUE, v |-> DigitsValue(s)]
    ELSE [ok |-> FALSE, v |-> 0]

RECURSIVE Pow10(_)
Pow10(n) == IF n = 0 THEN 1 ELSE 10 * Pow10(n - 1)

\* The canonical form of the decimal m / 10^f (no trailing zero in the fraction).
RECURSIVE Decimal(_, _)
Decimal(m, f) ==
    IF f > 0 /\ m % 10 = 0 THEN Decimal(m \div 10, f - 1) ELSE [m |-> m, f |-> f]

DotAt(s) == {i \in 1..Len(s) : s[i] = "."}

\* float(s) for an unsigned decimal literal: digits, at most one point, at
\* least one digit.  [ok, v]; not ok stands for ValueError.
float(s) ==
    LET dots == DotAt(s)
        p    == IF dots = {} THEN Len(s) + 1 ELSE CHOOSE i \in dots : TRUE
        ip   == SubSeq(s, 1, p - 1)
        fp   == SubSeq(s, p + 1, Len(s))
    IN  IF /\ Cardinality(dots) <= 1
           /\ AllDecimal(ip) /\ AllDecimal(fp)
           /\ Len(ip) + Len(fp) > 0
        THEN [ok |-> TRUE,
              v  |-> Decimal(DigitsValue(ip) * Pow10(Len(fp)) + DigitsValue(fp), Len(fp))]
        ELSE [ok |-> FALSE, v |-> Decimal(0, 0)]

\* x <= y on REAL values
RealLeq(x, y) == x.m * Pow10(y.f) <= y.m * Pow10(x.f)

\* The literal 5.0 of the WHERE clauses.
RatingCutoff == Decimal(5, 0)

\* ------------------------------------------------------------ the database
NULL == {}

NoTable    == [exists |-> FALSE, rows |-> <<>>]
EmptyTable == [exists |-> TRUE, rows |-> <<>>]

\* teleparty.db before the program ever ran: no tables.
NoDatabase == [shows |-> NoTable, episodes |-> NoTable]

\* DROP TABLE IF EXISTS shows; DROP TABLE IF EXISTS episodes
DropTablesShowsOnly(db) == [db EXCEPT !.shows = NoTable]
DropTables(db) == [db EXCEPT !.shows = NoTable, !.episodes = NoTable]

\* CREATE TABLE t (...): an error if t exists.  Each statement is committed
\* on its own, so an error leaves the earlier statements' effects.
CreateTable(r, t) ==
    IF ~r.ok THEN r
    ELSE IF r.db[t].exists THEN [ok |-> FALSE, db |-> r.db]
    ELSE [ok |-> TRUE, db |-> [r.db EXCEPT ![t] = EmptyTable]]

\* The statements of create_database_and_tables, in order: [ok, db].
CreateTables(db) ==
    CreateTable(CreateTable([ok |-> TRUE, db |-> DropTables(db)], "shows"), "episodes")

\* shows.Code TEXT PRIMARY KEY: the unique index on Code.
ShowConflictNever(rows, r) == FALSE
ShowConflict(rows, r) == \E i \in 1..Len(rows) : rows[i].Code = r.Code

\* episodes PRIMARY KEY (parent_code, Season, Episode) of a rowid table: a
\* unique index, in which a key with a NULL column equals no other key.
EpisodeConflict(rows, r) ==
    \E i \in 1..Len(rows) :
        /\ rows[i].parent_code = r.parent_code
        /\ r.Season # NULL /\ rows[i].Season = r.Season
        /\ r.Episode # NULL /\ rows[i].Episode = r.Episode

\* cursor.executemany('INSERT INTO shows ...', to_db): the rows are inserted
\* one by one; the first conflict raises IntegrityError and the rows inserted
\* before it stay in the open transaction.  [ok, rows]
RECURSIVE executemany_shows(_, _)
executemany_shows(rows, to_db) ==
    IF to_db = <<>> THEN [ok |-> TRUE, rows |-> rows]
    ELSE IF ShowConflict(rows, Head(to_db)) THEN [ok |-> FALSE, rows |-> rows]
    ELSE executemany_shows(Append(rows, Head(to_db)), Tail(to_db))

\* cursor.executemany('INSERT OR IGNORE INTO episodes ...', to_db): a row
\* that conflicts is skipped.
RECURSIVE executemany_episodes(_, _)
executemany_episodes(rows, to_db) ==
    IF to_db = <<>> THEN rows
    ELSE IF EpisodeConflict(rows, Head(to_db))
         THEN executemany_episodes(rows, Tail(to_db))
         ELSE executemany_episodes(Append(rows, Head(to_db)), Tail(to_db))

\* ---------------------------------------------------------------- the files
ShowCols    == {"Code", "Title", "Rating", "Rating Count", "Rank"}
EpisodeCols == {"id_code", "Code", "Season", "Episode", "Rating"}

NoFile  == [exists |-> FALSE, cols |-> {}, rows |-> <<>>]
NotRead == [exists |-> FALSE, cols |-> {"not read"}, rows |-> <<>>]

NoExc == [type |-> "none", at |-> "none"]
Raised(type, at) == [type |-> type, at |-> at]

\* x if s else None, for the conversion result x of a non-empty field
Nullable(s, x) == IF s = <<>> THEN NULL ELSE {x.v}

NoShowRow == [Code |-> "", Title |-> "", Rating |-> NULL, RatingCount |-> NULL, Rank |-> NULL]

\* Lines 63-71: one row of the show file to the tuple appended to to_db.
\* [exc, rec]; the subscripts and conversions are evaluated in source order.
show_row(cols, row) ==
    LET rc == row["Rating Count"]
        cleaned == int(str_replace_comma(rc))
        rating == float(row["Rating"])
        rank == int(row["Rank"])
        fail(type, at) == [exc |-> Raised(type, at), rec |-> NoShowRow]
    IN  IF "Rating Count" \notin cols THEN fail("KeyError", "Rating Count")
        ELSE IF rc # <<>> /\ ~cleaned.ok THEN fail("ValueError", "Rating Count")
        ELSE IF "Code" \notin cols THEN fail("KeyError", "Code")
        ELSE IF "Title" \notin cols THEN fail("KeyError", "Title")
        ELSE IF "Rating" \notin cols THEN fail("KeyError", "Rating")
        ELSE IF row["Rating"] # <<>> /\ ~rating.ok THEN fail("ValueError", "Rating")
        ELSE IF "Rank" \notin cols THEN fail("KeyError", "Rank")
        ELSE IF row["Rank"] # <<>> /\ ~rank.ok THEN fail("ValueError", "Rank")
        ELSE [exc |-> NoExc,
              rec |-> [Code |-> row["Code"], Title |-> row["Title"],
                       Rating |-> Nullable(row["Rating"], rating),
                       RatingCount |-> Nullable(rc, cleaned),
                       Rank |-> Nullable(row["Rank"], rank)]]

NoEpisodeRow == [id_code |-> "", parent_code |-> "", Season |-> NULL, Episode |-> NULL, Rating |-> NULL]

\* int(s) if s.isdigit() else None, lines 88-89: [ok, v] with v nullable.
IntIfDigit(s) ==
    IF str_isdigit(s)
    THEN (IF int(s).ok THEN [ok |-> TRUE, v |-> {int(s).v}] ELSE [ok |-> FALSE, v |-> NULL])
    ELSE [ok |-> TRUE, v |-> NULL]

\* Lines 85-91: one row of the episode file to the tuple appended to to_db.
episode_row(cols, row) ==
    LET season == IntIfDigit(row["Season"])
        episode == IntIfDigit(row["Episode"])
        rating == float(row["Rating"])
        fail(type, at) == [exc |-> Raised(type, at), rec |-> NoEpisodeRow]
    IN  IF "id_code" \notin cols THEN fail("KeyError", "id_code")
        ELSE IF "Code" \notin cols THEN fail("KeyError", "Code")
        ELSE IF "Season" \notin cols THEN fail("KeyError", "Season")
        ELSE IF ~season.ok THEN fail("ValueError", "Season")
        ELSE IF "Episode" \notin cols THEN fail("KeyError", "Episode")
        ELSE IF ~episode.ok THEN fail("ValueError", "Episode")
        ELSE IF "Rating" \notin cols THEN fail("KeyError", "Rating")
        ELSE IF row["Rating"] # <<>> /\ ~rating.ok THEN fail("ValueError", "Rating")
        ELSE [exc |-> NoExc,
              rec |-> [id_code |-> row["id_code"], parent_code |-> row["Code"],
                       Season |-> season.v, Episode |-> episode.v,
                       Rating |-> Nullable(row["Rating"], rating)]]

Min(S) == CHOOSE x \in S : \A y \in S : x <= y

\* The loop `for row in reader: to_db.append(...)` over converted rows: the
\* first row that raises ends it.  [exc, to_db]
ReadLoop(converted) ==
    LET bad == {i \in 1..Len(converted) : converted[i].exc # NoExc}
    IN  IF bad = {}
        THEN [exc |-> NoExc, to_db |-> [i \in 1..Len(converted) |-> converted[i].rec]]
        ELSE [exc |-> converted[Min(bad)].exc, to_db |-> <<>>]

\* Lines 58-71: open the show file and build to_db.
read_shows(file) ==
    IF ~file.exists THEN [exc |-> Raised("FileNotFoundError", "all-series-ep-average.csv"), to_db |-> <<>>]
    ELSE ReadLoop([i \in 1..Len(file.rows) |-> show_row(file.cols, file.rows[i])])

\* Lines 81-91: open the episode file and build to_db.
read_episodes(file) ==
    IF ~file.exists THEN [exc |-> Raised("FileNotFoundError", "all-episode-ratings.csv"), to_db |-> <<>>]
    ELSE ReadLoop([i \in 1..Len(file.rows) |-> episode_row(file.cols, file.rows[i])])

\* -------------------------------------------------------------- the queries
Val(x) == CHOOSE v \in x : TRUE

\* SQLite's ordering of values in ORDER BY: NULL sorts before every number.
SqlLess(a, b) ==
    \/ a = NULL /\ b # NULL
    \/ a # NULL /\ b # NULL /\ Val(a) < Val(b)

\* The orders in which a sort may return the elements of S, where <<a, b>>
\* in before says that a sorts strictly before b: any arrangement in which no
\* element is strictly before one placed ahead of it (the order of ties is
\* not specified by SQL).
Orderings(S, before) ==
    {f \in [1..Cardinality(S) -> S] :
        /\ \A i, j \in 1..Cardinality(S) : i # j => f[i] # f[j]
        /\ \A i, j \in 1..Cardinality(S) : i < j => <<f[j], f[i]>> \notin before}

\* WHERE Rating <= 5.0 (a comparison with NULL is not true)
LowRatedStrict(r) == r.Rating # NULL /\ RealLeq(Val(r.Rating), RatingCutoff) /\ Val(r.Rating) # RatingCutoff
LowRated(r) == r.Rating # NULL /\ RealLeq(Val(r.Rating), RatingCutoff)

\* Lines 112-118: SELECT Title, Rating FROM shows WHERE Rating <= 5.0
\* ORDER BY Rating DESC.  The set of result lists fetchall() may return.
Query1(db) ==
    LET shows == db.shows.rows
        sel == {i \in 1..Len(shows) : LowRated(shows[i])}
        before == {<<i, j>> \in sel \X sel : ~RealLeq(Val(shows[i].Rating), Val(shows[j].Rating))}
    IN  {[k \in 1..Cardinality(sel) |-> [Title |-> shows[f[k]].Title, Rating |-> shows[f[k]].Rating]] :
            f \in Orderings(sel, before)}

\* The key of GROUP BY in query 2.
GroupKey(r) == r.Title

\* Lines 127-136: SELECT s.Title, COUNT(DISTINCT e.Season) AS season_count
\* FROM shows s JOIN episodes e ON s.Code = e.parent_code WHERE s.Rating <= 5.0
\* GROUP BY s.Title HAVING season_count > 1 ORDER BY season_count DESC.
Query2(db) ==
    LET shows == db.shows.rows
        eps == db.episodes.rows
        joined == {<<i, j>> \in (1..Len(shows)) \X (1..Len(eps)) :
                      shows[i].Code = eps[j].parent_code /\ LowRated(shows[i])}
        keys == {GroupKey(shows[p[1]]) : p \in joined}
        group(k) == {p \in joined : GroupKey(shows[p[1]]) = k}
        title(k) == shows[(CHOOSE p \in group(k) : TRUE)[1]].Title
        season_count(k) == Cardinality(UNION {eps[p[2]].Season : p \in group(k)})
        having == {k \in keys : season_count(k) > 1}
        before == {<<k, l>> \in having \X having : season_count(k) > season_count(l)}
    IN  {[n \in 1..Cardinality(having) |-> [Title |-> title(f[n]), season_count |-> season_count(f[n])]] :
            f \in Orderings(having, before)}

\* Lines 160-165 and 189-194: SELECT COUNT(*), COUNT(DISTINCT Season) FROM
\* episodes WHERE parent_code = ?  (COUNT(DISTINCT x) skips NULL)
EpisodeCounts(db, show_code) ==
    LET eps == db.episodes.rows
        sel == {j \in 1..Len(eps) : eps[j].parent_code = show_code}
    IN  [ep_count |-> Cardinality(sel),
         season_count |-> Cardinality(UNION {eps[j].Season : j \in sel})]

\* The block under `if result:` of queries 3 and 4.
ShowReport(db, r) ==
    [Code |-> r.Code, Title |-> r.Title, RatingCount |-> r.RatingCount, Rank |-> r.Rank,
     ep_count |-> EpisodeCounts(db, r.Code).ep_count,
     season_count |-> EpisodeCounts(db, r.Code).season_count]

\* The first row of an ORDER BY ... LIMIT 1 over the rows sel: any row that
\* no other row is strictly before.  {} when sel is empty (fetchone() is None).
First(sel, before) ==
    {i \in sel : \A j \in sel : <<j, i>> \notin before}

\* ORDER BY RatingCount DESC, Rank ASC
Order3(a, b) ==
    \/ SqlLess(b.RatingCount, a.RatingCount)
    \/ a.RatingCount = b.RatingCount /\ SqlLess(a.Rank, b.Rank)

\* ORDER BY RatingCount ASC, Rank DESC
Order4(a, b) ==
    \/ SqlLess(a.RatingCount, b.RatingCount)
    \/ a.RatingCount = b.RatingCount /\ SqlLess(b.Rank, a.Rank)

\* Lines 146-169.  The set of outcomes: {} is the "could not determine" line.
Query3(db) ==
    LET shows == db.shows.rows
        sel == 1..Len(shows)
        first == First(sel, {<<i, j>> \in sel \X sel : Order3(shows[i], shows[j])})
    IN  IF first = {} THEN {NULL} ELSE {{ShowReport(db, shows[i])} : i \in first}

\* WHERE RatingCount IS NOT NULL
Where4All(r) == TRUE
Where4(r) == r.RatingCount # NULL

\* Lines 174-198.
Query4(db) ==
    LET shows == db.shows.rows
        sel == {i \in 1..Len(shows) : Where4(shows[i])}
        first == First(sel, {<<i, j>> \in sel \X sel : Order4(shows[i], shows[j])})
    IN  IF first = {} THEN {NULL} ELSE {{ShowReport(db, shows[i])} : i \in first}

NoOutput == [ran |-> FALSE, q1 |-> <<>>, q1_none |-> FALSE, q2 |-> <<>>, q2_none |-> FALSE,
             q3 |-> NULL, q4 |-> NULL]

\* ------------------------------------------------------------ the program
Phases == <<"init", "shows", "episodes", "report">>

\* What a run finds in teleparty.db.
StoreKind(db) ==
    IF ~db.shows.exists /\ ~db.episodes.exists THEN "no tables"
    ELSE IF db.shows.rows = <<>> /\ db.episodes.rows = <<>> THEN "empty tables"
    ELSE "populated"

\* The try block of __main__, lines 205-213: where control goes after a step
\* that ended with exception e (NoExc: it returned).
after_step_swallow(next, e) == next
after_step(next, e) == IF e = NoExc THEN next ELSE "except"

\* ingest_data's connection is dropped with its transaction open when an
\* exception leaves the function before conn.commit() (line 98): SQLite rolls
\* the transaction back, the committed database is what remains.
connection_dropped_commits(committed, uncommitted) == uncommitted
connection_dropped(committed, uncommitted) == committed

Init ==
    /\ disk = NoDatabase
    /\ work = NoDatabase
    /\ pc = "start"
    /\ exc = NoExc
    /\ done = <<>>
    /\ showFile = NotRead
    /\ episodeFile = NotRead
    /\ found = "n/a"
    /\ out = NoOutput

\* Lines 5-47, called at line 207 when the program is started.
create_database_and_tables ==
    /\ pc \in {"start", "done", "halted"}
    /\ LET r == CreateTables(disk)
           e == IF r.ok THEN NoExc ELSE Raised("OperationalError", "CREATE TABLE")
       IN  /\ disk' = r.db
           /\ work' = r.db
           /\ exc' = e
           /\ pc' = after_step("ingest_shows", e)
           /\ done' = IF r.ok THEN <<"init">> ELSE <<>>
    /\ found' = StoreKind(disk)
    /\ showFile' = NotRead
    /\ episodeFile' = NotRead
    /\ out' = NoOutput

\* The show half of ingest_data, lines 54-76: [exc, rows]
load_shows(db, file) ==
    LET rd == read_shows(file)
        ins == executemany_shows(db.shows.rows, rd.to_db)
    IN  IF rd.exc # NoExc THEN [exc |-> rd.exc, rows |-> db.shows.rows]
        ELSE IF ~ins.ok THEN [exc |-> Raised("IntegrityError", "shows.Code"), rows |-> ins.rows]
        ELSE [exc |-> NoExc, rows |-> ins.rows]

\* The episode half of ingest_data, lines 81-96: [exc, rows]
load_episodes(db, file) ==
    LET rd == read_episodes(file)
    IN  IF rd.exc # NoExc THEN [exc |-> rd.exc, rows |-> db.episodes.rows]
        ELSE [exc |-> NoExc, rows |-> executemany_episodes(db.episodes.rows, rd.to_db)]

\* ingest_data up to line 76, the show file loaded.
ingest_shows_ok(Files) ==
    /\ pc = "ingest_shows"
    /\ \E file \in Files :
        LET r == load_shows(work, file)
        IN  /\ r.exc = NoExc
            /\ showFile' = file
            /\ work' = [work EXCEPT !.shows.rows = r.rows]
            /\ pc' = after_step("ingest_episodes", r.exc)
            /\ done' = Append(done, "shows")
    /\ found' = "n/a"
    /\ UNCHANGED <<disk, exc, episodeFile, out>>

\* ingest_data raising while it loads the show file.
ingest_shows_raises(Files) ==
    /\ pc = "ingest_shows"
    /\ \E file \in Files :
        LET r == load_shows(work, file)
        IN  /\ r.exc # NoExc
            /\ showFile' = file
            /\ work' = [work EXCEPT !.shows.rows = r.rows]
            /\ exc' = r.exc
            /\ pc' = after_step("ingest_episodes", r.exc)
    /\ found' = "n/a"
    /\ UNCHANGED <<disk, done, episodeFile, out>>

\* ingest_data from line 81 to its end: the episode file loaded, then
\* conn.commit() makes the rows of both tables durable.
ingest_episodes_ok(Files) ==
    /\ pc = "ingest_episodes"
    /\ \E file \in Files :
        LET r == load_episodes(work, file)
        IN  /\ r.exc = NoExc
            /\ episodeFile' = file
            /\ work' = [work EXCEPT !.episodes.rows = r.rows]
            /\ disk' = work'
            /\ pc' = after_step("reports", r.exc)
            /\ done' = Append(done, "episodes")
    /\ UNCHANGED <<exc, showFile, found, out>>

\* ingest_data raising while it loads the episode file.
ingest_episodes_raises(Files) ==
    /\ pc = "ingest_episodes"
    /\ \E file \in Files :
        LET r == load_episodes(work, file)
        IN  /\ r.exc # NoExc
            /\ episodeFile' = file
            /\ work' = [work EXCEPT !.episodes.rows = r.rows]
            /\ exc' = r.exc
            /\ pc' = after_step("reports", r.exc)
    /\ UNCHANGED <<disk, done, showFile, found, out>>

\* Lines 101-201: the four queries on a new connection, in order.
run_reports ==
    /\ pc = "reports"
    /\ \E q1 \in Query1(disk), q2 \in Query2(disk), q3 \in Query3(disk), q4 \in Query4(disk) :
        out' = [ran |-> TRUE,
                q1 |-> q1, q1_none |-> (q1 = <<>>),
                q2 |-> q2, q2_none |-> (q2 = <<>>),
                q3 |-> q3, q4 |-> q4]
    /\ pc' = "done"
    /\ done' = Append(done, "report")
    /\ UNCHANGED <<disk, work, exc, showFile, episodeFile, found>>

\* Lines 215-217: except FileNotFoundError; the program ends.
except_FileNotFoundError ==
    /\ pc = "except"
    /\ exc.type = "FileNotFoundError"
    /\ pc' = "halted"
    /\ disk' = connection_dropped(disk, work)
    /\ work' = disk'
    /\ found' = "n/a"
    /\ UNCHANGED <<exc, done, showFile, episodeFile, out>>

\* Lines 218-219: except Exception; the program ends.
except_Exception ==
    /\ pc = "except"
    /\ exc.type # "FileNotFoundError"
    /\ pc' = "halted"
    /\ disk' = connection_dropped(disk, work)
    /\ work' = disk'
    /\ found' = "n/a"
    /\ UNCHANGED <<exc, done, showFile, episodeFile, out>>

\* ------------------------------------------------------------- the inputs
SeqsUpTo(S, n) == UNION {[1..k -> S] : k \in 0..n}

\* The files a run may find: absent, complete with up to n rows, or lacking
\* the column `missing` with up to one row.
Files(Rows, Cols, missing, n) ==
    {NoFile}
      \cup {[exists |-> TRUE, cols |-> Cols, rows |-> r] : r \in SeqsUpTo(Rows, n)}
      \cup {[exists |-> TRUE, cols |-> Cols \ {missing}, rows |-> r] : r \in SeqsUpTo(Rows, 1)}

ShowRows(Codes, Titles, Ratings, RatingCounts, Ranks) ==
    {("Code" :> c) @@ ("Title" :> t) @@ ("Rating" :> r) @@ ("Rating Count" :> n) @@ ("Rank" :> k) :
        c \in Codes, t \in Titles, r \in Ratings, n \in RatingCounts, k \in Ranks}

EpisodeRows(Ids, Codes, Seasons, Episodes, Ratings) ==
    {("id_code" :> i) @@ ("Code" :> c) @@ ("Season" :> s) @@ ("Episode" :> e) @@ ("Rating" :> r) :
        i \in Ids, c \in Codes, s \in Seasons, e \in Episodes, r \in Ratings}

\* Inputs that exercise the loader: malformed and empty fields, duplicates.
LoadShowFiles ==
    Files(ShowRows({"S1", "S2"}, {"Alpha"}, {<<"4", ".", "0">>},
                   {<<>>, <<"1", ",", "0">>, <<"a">>}, {<<"2">>}),
          ShowCols, "Rating", MaxShowRows)

LoadEpisodeFiles ==
    Files(EpisodeRows({"e1", "e2"}, {"S1"}, {<<>>, <<"1">>, <<"1", "a">>, <<"sup2">>},
                      {<<"1", "2">>, <<>>}, {<<"4", ".", "2">>}),
          EpisodeCols, "Season", MaxEpisodeRows)

\* Inputs that exercise queries 1 and 2: titles, ratings around 5.0, seasons.
RatedShowFiles ==
    Files(ShowRows({"S1", "S2"}, {"Alpha", "Beta"},
                   {<<>>, <<"3", ".", "0">>, <<"5", ".", "0">>, <<"5", ".", "5">>},
                   {<<"7">>}, {<<"1">>}),
          ShowCols, "Title", MaxShowRows)

SeasonEpisodeFiles ==
    Files(EpisodeRows({"e1"}, {"S1", "S2"}, {<<>>, <<"1">>, <<"2">>}, {<<"1">>}, {<<>>}),
          EpisodeCols, "Rating", MaxEpisodeRows)

\* Inputs that exercise queries 3 and 4: rating counts and ranks, with NULLs.
RankedShowFiles ==
    Files(ShowRows({"S1", "S2"}, {"Alpha"}, {<<"4", ".", "0">>},
                   {<<>>, <<"5">>, <<"1", ",", "0">>}, {<<>>, <<"1">>, <<"2">>}),
          ShowCols, "Rank", MaxShowRows)

CountedEpisodeFiles ==
    Files(EpisodeRows({"e1"}, {"S1", "S2"}, {<<>>, <<"1">>}, {<<"1">>, <<"2">>}, {<<>>}),
          EpisodeCols, "Episode", MaxEpisodeRows)

Next ==
    \/ create_database_and_tables
    \/ ingest_shows_ok(LoadShowFiles)
    \/ ingest_shows_raises(LoadShowFiles)
    \/ ingest_episodes_ok(LoadEpisodeFiles)
    \/ ingest_episodes_raises(LoadEpisodeFiles)
    \/ run_reports
    \/ except_FileNotFoundError
    \/ except_Exception

Spec == Init /\ [][Next]_vars

NextRated ==
    \/ create_database_and_tables
    \/ ingest_shows_ok(RatedShowFiles)
    \/ ingest_shows_raises(RatedShowFiles)
    \/ ingest_episodes_ok(SeasonEpisodeFiles)
    \/ ingest_episodes_raises(SeasonEpisodeFiles)
    \/ run_reports
    \/ except_FileNotFoundError
    \/ except_Exception

SpecRated == Init /\ [][NextRated]_vars

NextRanked ==
    \/ create_database_and_tables
    \/ ingest_shows_ok(RankedShowFiles)
    \/ ingest_shows_raises(RankedShowFiles)
    \/ ingest_episodes_ok(CountedEpisodeFiles)
    \/ ingest_episodes_raises(CountedEpisodeFiles)
    \/ run_reports
    \/ except_FileNotFoundError
    \/ except_Exception

SpecRanked == Init /\ [][NextRanked]_vars

\* ------------------------------------------------------------ the claims
EmptyDatabase == [shows |-> EmptyTable, episodes |-> EmptyTable]

IsPrefix(s, t) == Len(s) <= Len(t) /\ \A i \in 1..Len(s) : s[i] = t[i]

LoadCompleted == pc \in {"reports", "done"}

\* The episode tuples of the file read by this run, in file order.
EpisodeSource == read_episodes(episodeFile).to_db

SameTuple(a, b) ==
    a.parent_code = b.parent_code /\ a.Season = b.Season /\ a.Episode = b.Episode

\* src without every row whose (parent_code, season, episode) occurred earlier.
FirstOccurrences(src) ==
    LET F[n \in 0..Len(src)] ==
            IF n = 0 THEN <<>>
            ELSE IF \E j \in 1..(n - 1) : SameTuple(src[j], src[n]) THEN F[n - 1]
            ELSE Append(F[n - 1], src[n])
    IN  F[Len(src)]

\* C1: after a load that completes, the Episode table is the episode source
\* filtered to the first occurrence, in file order, of each (parent_code,
\* season, episode) tuple, tuples with a null season or episode included.
C1_EpisodeDedup ==
    LoadCompleted => disk.episodes.rows = FirstOccurrences(EpisodeSource)

ShowsLoadedEpisodesFailed ==
    pc \in {"except", "halted"} /\ done = <<"init", "shows">>

\* C2 as claimed: when the show load succeeded and the episode load failed,
\* the show rows inserted by the run are in the persistent store after the
\* run has ended.
C2_PartialProgressKept ==
    (pc = "halted" /\ done = <<"init", "shows">>)
        => disk.shows.rows = read_shows(showFile).to_db

\* C2 as amended: when the show load succeeded and the episode load failed,
\* nothing the run inserted is committed; the persistent store holds the two
\* tables as schema init left them, both empty.
C2_PartialProgressRolledBack ==
    ShowsLoadedEpisodesFailed => disk = EmptyDatabase

C2_Witness ==
    /\ pc = "halted" /\ done = <<"init", "shows">>
    /\ showFile.exists /\ showFile.rows # <<>>
    /\ disk.shows.rows = <<>>

NoDuplicateCode(rows) ==
    \A i, j \in 1..Len(rows) : i # j => rows[i].Code # rows[j].Code

HasDuplicateCode(file) ==
    /\ file.exists /\ "Code" \in file.cols
    /\ \E i, j \in 1..Len(file.rows) : i # j /\ file.rows[i]["Code"] = file.rows[j]["Code"]

\* C3: the Show table never holds two rows with the same Code, and a run
\* that read a show source with a duplicate Code has raised: it completed no
\* load, committed no show row and runs no report.
C3_DuplicateShowCodeAborts ==
    /\ NoDuplicateCode(disk.shows.rows)
    /\ NoDuplicateCode(work.shows.rows)
    /\ HasDuplicateCode(showFile) =>
          /\ pc \in {"except", "halted"}
          /\ exc # NoExc
          /\ "shows" \notin {done[i] : i \in 1..Len(done)}
          /\ disk.shows.rows = <<>>
          /\ ~out.ran

C3_Witness ==
    /\ pc = "except" /\ exc.type = "IntegrityError"
    /\ HasDuplicateCode(showFile)
    /\ Len(work.shows.rows) >= 1

\* C4: the phases of a run complete in the order init, shows, episodes,
\* report; each step starts only when all before it returned without an
\* exception, and a run in which a file was missing or a step raised
\* executes no report query.
C4_PhaseOrder ==
    /\ IsPrefix(done, Phases)
    /\ pc = "ingest_shows" => done = <<"init">> /\ exc = NoExc
    /\ pc = "ingest_episodes" => done = <<"init", "shows">> /\ exc = NoExc
    /\ pc = "reports" => done = <<"init", "shows", "episodes">> /\ exc = NoExc
    /\ pc = "done" => done = Phases /\ exc = NoExc
    /\ out.ran => pc = "done" /\ showFile.exists /\ episodeFile.exists
    /\ exc # NoExc => pc \in {"except", "halted"} /\ ~out.ran
    /\ (showFile = NoFile \/ episodeFile = NoFile) => exc.type = "FileNotFoundError"

C4_Witness ==
    /\ pc = "halted" /\ episodeFile = NoFile
    /\ done = <<"init", "shows">> /\ ~out.ran

\* What the claim says a Season or Episode field is stored as.
Denotes(s) == IF s # <<>> /\ AllDecimal(s) THEN {DigitsValue(s)} ELSE NULL

\* C9: no Season or Episode field makes the episode load fail; a field that
\* is empty or has a non-digit character is stored as null, a field of digits
\* as the integer it denotes.
C9_SeasonEpisodeNeverRaises ==
    /\ ~(exc.type = "ValueError" /\ exc.at \in {"Season", "Episode"})
    /\ LoadCompleted =>
          \A i \in 1..Len(disk.episodes.rows) :
              \E k \in 1..Len(episodeFile.rows) :
                  /\ disk.episodes.rows[i].id_code = episodeFile.rows[k]["id_code"]
                  /\ disk.episodes.rows[i].parent_code = episodeFile.rows[k]["Code"]
                  /\ disk.episodes.rows[i].Season = Denotes(episodeFile.rows[k]["Season"])
                  /\ disk.episodes.rows[i].Episode = Denotes(episodeFile.rows[k]["Episode"])

\* C10: from every store a run can find, schema init completes without error
\* and leaves both tables existing and empty, and invoking it again on its
\* own result changes nothing.
C10_SchemaInitIdempotent ==
    /\ LET r == CreateTables(disk)
       IN  r.ok /\ r.db = EmptyDatabase /\ CreateTables(r.db) = r
    /\ found # "n/a" => pc = "ingest_shows" /\ exc = NoExc /\ disk = EmptyDatabase

C10_Witness ==
    pc = "ingest_shows" /\ found = "populated" /\ disk = EmptyDatabase

\* The committed tables the reports read.
Shows == disk.shows.rows
Episodes == disk.episodes.rows

Bijections(n, S) ==
    {f \in [1..n -> S] : \A i, j \in 1..n : i # j => f[i] # f[j]}

\* rating <= 5.0 for a non-null rating
AtMostFive(rating) == rating # NULL /\ Val(rating).m <= 5 * Pow10(Val(rating).f)

\* The distinct season values among the episodes of the show with this code.
SeasonsOf(code) ==
    UNION {Episodes[j].Season : j \in {k \in 1..Len(Episodes) : Episodes[k].parent_code = code}}

EpisodesOf(code) == {k \in 1..Len(Episodes) : Episodes[k].parent_code = code}

\* C8: query 1 returns exactly the shows whose rating is non-null and
\* <= 5.0, each once, in non-increasing order of rating, and reports "none
\* found" exactly when no show qualifies.
C8_Query1 ==
    out.ran =>
        LET sel == {i \in 1..Len(Shows) : AtMostFive(Shows[i].Rating)}
        IN  /\ Len(out.q1) = Cardinality(sel)
            /\ \E f \in Bijections(Len(out.q1), sel) :
                  \A k \in 1..Len(out.q1) :
                      out.q1[k] = [Title |-> Shows[f[k]].Title, Rating |-> Shows[f[k]].Rating]
            /\ \A k, l \in 1..Len(out.q1) :
                  k < l => RealLeq(Val(out.q1[l].Rating), Val(out.q1[k].Rating))
            /\ out.q1_none = (sel = {})

C8_Witness ==
    /\ out.ran /\ Len(out.q1) = 2
    /\ out.q1[1].Rating = {Decimal(5, 0)}
    /\ out.q1[2].Rating = {Decimal(3, 0)}

\* C5: query 2 returns one result per show, identified by its code, that has
\* rating <= 5.0 and more than one distinct season among its own episodes,
\* with that show's own season count, sorted by season count descending.
C5_Query2PerShow ==
    out.ran =>
        LET sel == {i \in 1..Len(Shows) :
                       AtMostFive(Shows[i].Rating) /\ Cardinality(SeasonsOf(Shows[i].Code)) > 1}
        IN  /\ Len(out.q2) = Cardinality(sel)
            /\ \E f \in Bijections(Len(out.q2), sel) :
                  \A k \in 1..Len(out.q2) :
                      out.q2[k] = [Title |-> Shows[f[k]].Title,
                                   season_count |-> Cardinality(SeasonsOf(Shows[f[k]].Code))]
            /\ \A k, l \in 1..Len(out.q2) :
                  k < l => out.q2[k].season_count >= out.q2[l].season_count

\* The report of show i with the episode and season counts of its own code.
ReportOf(i) ==
    [Code |-> Shows[i].Code, Title |-> Shows[i].Title,
     RatingCount |-> Shows[i].RatingCount, Rank |-> Shows[i].Rank,
     ep_count |-> Cardinality(EpisodesOf(Shows[i].Code)),
     season_count |-> Cardinality(SeasonsOf(Shows[i].Code))]

\* C6: with a non-empty Show table query 3 reports one show, whose
\* rating_count is the highest of all and whose rank is the lowest among the
\* shows with that rating_count, with its episode and season counts; with an
\* empty Show table it reports "could not determine".
C6_Query3 ==
    out.ran =>
        IF Shows = <<>> THEN out.q3 = NULL
        ELSE \E i \in 1..Len(Shows) :
                /\ out.q3 = {ReportOf(i)}
                /\ \A j \in 1..Len(Shows) :
                      Shows[j].RatingCount # NULL =>
                          /\ Shows[i].RatingCount # NULL
                          /\ Val(Shows[i].RatingCount) >= Val(Shows[j].RatingCount)
                /\ \A j \in 1..Len(Shows) :
                      (Shows[j].RatingCount = Shows[i].RatingCount /\ Shows[j].Rank # NULL) =>
                          /\ Shows[i].Rank # NULL
                          /\ Val(Shows[i].Rank) <= Val(Shows[j].Rank)

\* C7: query 4 considers only shows with a non-null rating_count; when one
\* exists it reports one show, whose rating_count is the lowest non-null one
\* and whose rank is the highest among the shows with that rating_count, with
\* its episode and season counts; otherwise it reports "could not determine".
C7_Query4 ==
    out.ran =>
        LET rated == {i \in 1..Len(Shows) : Shows[i].RatingCount # NULL}
        IN  IF rated = {} THEN out.q4 = NULL
            ELSE \E i \in rated :
                    /\ out.q4 = {ReportOf(i)}
                    /\ \A j \in rated :
                          Val(Shows[i].RatingCount) <= Val(Shows[j].RatingCount)
                    /\ \A j \in rated :
                          (Shows[j].RatingCount = Shows[i].RatingCount /\ Shows[j].Rank # NULL) =>
                              /\ Shows[i].Rank # NULL
                              /\ Val(Shows[i].Rank) >= Val(Shows[j].Rank)

C7_Witness ==
    /\ out.ran /\ out.q4 # NULL
    /\ Len(Shows) = 2 /\ Shows[1].RatingCount = Shows[2].RatingCount
    /\ Shows[1].Rank = {1} /\ Shows[2].Rank = {2}
    /\ Val(out.q4).Rank = {2}
    /\ Val(out.q4).ep_count = 2 /\ Val(out.q4).season_count = 1

====
